---- MODULE Spec2Model ----
(***************************************************************************)
(* Model of backend/prebuild.js: the asset prebuild that clears ./cache,   *)
(* walks ../BakerySite and dispatches one handler per regular file, in     *)
(* batches that are awaited together.                                      *)
(*                                                                         *)
(* Representation.  A file or directory name is the sequence of its        *)
(* dot-separated segments: <<"app","min","js">> is "app.min.js",           *)
(* <<"README">> is "README" and <<"","js">> is ".js".  A path is the       *)
(* sequence of its names; path.sep never occurs inside a name.             *)
(***************************************************************************)
EXTENDS Naturals, Sequences, FiniteSets, TLC

VARIABLES
    tree,       \* the entries of SITE_DIR (unchanged while the build runs)
    run,        \* "first" or "second" invocation of the script
    pc,         \* position of main()
    steps,      \* what walk(SITE_DIR) does, in order (readdir / yield)
    pos,        \* next step of the traversal
    handlers,   \* one record per handler call, in dispatch order
    tasks,      \* main's `tasks` array (indices into handlers)
    batches,    \* the arrays handed to Promise.all so far, in order
    destFiles,  \* files below CACHE_DIR: absolute path -> content
    destDirs,   \* directories that exist at or above CACHE_DIR's files
    stdout,     \* lines written by log()
    stderr,     \* what console.error received
    exitCode,   \* "running", 0 or 1
    rmOk,       \* outcome of fsp.rm in rimraf ("pending" before it ran)
    destBefore, \* the files CACHE_DIR held when this invocation started
    settled,    \* output files as they were when their batch was fulfilled
    prev        \* exit code and destination of the previous invocation

vars == <<tree, run, pc, steps, pos, handlers, tasks, batches, destFiles,
          destDirs, stdout, stderr, exitCode, rmOk, destBefore, settled, prev>>

-----------------------------------------------------------------------------
(* Bounds of the model *)

\* prebuild.js:184 awaits the pending list once it holds 50 promises.  The
\* model keeps the threshold as a parameter and explores it at a small value
\* so that full batches, a short last batch and every completion order of a
\* batch are enumerated.
BatchSize == 2

-----------------------------------------------------------------------------
(* Constants of the script *)

SITE_DIR == << <<"BakerySite">> >>

CACHE_DIR == << <<"backend">>, <<"cache">> >>

IMAGE_EXTS == {".jpg", ".jpeg", ".png", ".webp", ".jfif"}

JS_EXT == ".js"

CSS_EXT == ".css"

HTML_EXT == ".html"

-----------------------------------------------------------------------------
(* Strings and paths *)

\* (variant: the extension is compared as written, without toLowerCase)
ToLowerCaseOmitted(s) == s

\* String.prototype.toLowerCase on the segments and extensions that occur in
\* the source trees below.
ToLowerCase(s) ==
    CASE s = "JS"    -> "js"
      [] s = ".JS"   -> ".js"
      [] s = "MIN"   -> "min"
      [] s = "CSS"   -> "css"
      [] s = ".CSS"  -> ".css"
      [] s = ".Html" -> ".html"
      [] s = ".PNG"  -> ".png"
      [] s = ".WebP" -> ".webp"
      [] s = ".JPG"  -> ".jpg"
      [] OTHER       -> s

\* path.basename of a path
basename(p) == p[Len(p)]

\* path.extname: from the last "." of the base name to its end; "" when the
\* name has no "." or its only "." is the first character.
extname(p) ==
    LET name == basename(p) IN
    IF Len(name) < 2 \/ (Len(name) = 2 /\ name[1] = "")
    THEN ""
    ELSE "." \o name[Len(name)]

\* path.dirname
dirname(p) == SubSeq(p, 1, Len(p) - 1)

\* path.join
join(a, b) == a \o b

\* path.relative(SITE_DIR, absPath).split(path.sep).join('/')
relToSite(absPath) == SubSeq(absPath, Len(SITE_DIR) + 1, Len(absPath))

\* /\.min\.js$/i.test(rel): the name ends in ".min.js", whatever the case
IsMinJs(rel) ==
    LET name == basename(rel) IN
    /\ Len(name) >= 3
    /\ ToLowerCase(name[Len(name) - 1]) = "min"
    /\ ToLowerCase(name[Len(name)]) = "js"

\* /\.min\.css$/i.test(rel)
IsMinCss(rel) ==
    LET name == basename(rel) IN
    /\ Len(name) >= 3
    /\ ToLowerCase(name[Len(name) - 1]) = "min"
    /\ ToLowerCase(name[Len(name)]) = "css"

\* path.parse(rel).name followed by ".webp": the base name with its extension
\* (if any) replaced.  `${parsed.ext === '.webp' ? '' : ''}` adds nothing.
WebpName(rel) ==
    LET name == basename(rel) IN
    IF extname(rel) = ""
    THEN Append(name, "webp")
    ELSE Append(SubSeq(name, 1, Len(name) - 1), "webp")

\* every directory from the root down to p (fsp.mkdir recursive creates them)
Chain(p) == {SubSeq(p, 1, k) : k \in 1..Len(p)}

-----------------------------------------------------------------------------
(* The file systems *)

\* a map from paths to contents with nothing in it
NoFiles == [p \in {} |-> "none"]

\* the map f with path p set to content c (created or overwritten)
Put(f, p, c) == [q \in DOMAIN f \cup {p} |-> IF q = p THEN c ELSE f[q]]

\* the map f restricted to the paths in S
Keep(f, S) == [q \in S |-> f[q]]

\* is directory d at or below directory top
Below(d, top) == Len(d) >= Len(top) /\ SubSeq(d, 1, Len(top)) = top

\* the bytes of a source file: every source file has its own
SourceBytes(srcAbs) == [from |-> srcAbs, form |-> "source"]

\* the deterministic result of running transform `form` over a source file
Transformed(srcAbs, form) == [from |-> srcAbs, form |-> form]

\* a file left in CACHE_DIR by something other than this script
StaleBytes == [from |-> <<>>, form |-> "stale"]

File(name) == [name |-> name, type |-> "file"]

Dir(name, entries) == [name |-> name, type |-> "dir", entries |-> entries]

\* a directory entry that is neither a directory nor a regular file
Other(name) == [name |-> name, type |-> "symlink"]

\* Source trees the build is run on (the entries of SITE_DIR, in readdir
\* order).
Trees ==
    { \* two images with one base name in one batch, a plain and a minified
      \* script in a subdirectory; the file count is a multiple of the batch
      \* size
      << File(<<"photo", "png">>),
         File(<<"photo", "jpg">>),
         Dir(<<"js">>, << File(<<"app", "js">>),
                          File(<<"lib", "MIN", "JS">>) >>) >>,
      \* two images with one base name in different batches, a page, a
      \* style sheet in a subdirectory
      << File(<<"photo", "png">>),
         File(<<"index", "Html">>),
         File(<<"photo", "WebP">>),
         Dir(<<"css">>, << File(<<"site", "css">>) >>) >>,
      \* a dot file, a symlink, an empty directory, an upper-case extension
      \* two levels down, a name without extension
      << File(<<"", "js">>),
         Other(<<"link", "js">>),
         Dir(<<"empty">>, << >>),
         Dir(<<"a">>, << Dir(<<"b">>, << File(<<"APP", "JS">>) >>),
                         File(<<"README">>) >>) >>,
      \* a minified style sheet alone
      << File(<<"site", "min", "css">>) >>,
      \* nothing at all
      << >> }

\* What CACHE_DIR may hold before the first invocation.
InitialDests ==
    { NoFiles,
      Put(NoFiles, join(CACHE_DIR, << <<"old", "txt">> >>), StaleBytes),
      Put(NoFiles, join(CACHE_DIR, << <<"js">>, <<"app", "js">> >>), StaleBytes) }

-----------------------------------------------------------------------------
(* walk *)

RECURSIVE walkEntriesFlat(_, _, _)

\* (variant: directories are not descended into)
walkEntriesFlat(dir, entries, k) ==
    IF k > Len(entries) THEN << >>
    ELSE LET entry == entries[k]
             full  == join(dir, <<entry.name>>)
             here  == IF entry.type = "file"
                      THEN <<[op |-> "yield", path |-> full]>>
                      ELSE << >>
         IN here \o walkEntriesFlat(dir, entries, k + 1)

RECURSIVE walk(_, _), walkEntries(_, _, _)

\* async function* walk(dir): one readdir, then the entries in order;
\* directories are walked in place, regular files are yielded, anything
\* else is skipped.
walk(dir, entries) ==
    <<[op |-> "readdir", path |-> dir]>> \o walkEntries(dir, entries, 1)

walkEntries(dir, entries, k) ==
    IF k > Len(entries) THEN << >>
    ELSE LET entry == entries[k]
             full  == join(dir, <<entry.name>>)
             here  == IF entry.type = "dir" THEN walk(full, entry.entries)
                      ELSE IF entry.type = "file"
                           THEN <<[op |-> "yield", path |-> full]>>
                           ELSE << >>
         IN here \o walkEntries(dir, entries, k + 1)

-----------------------------------------------------------------------------
(* The handlers.  A handler call is a record: the source file, the output    *)
(* path, the stages the function goes through (each one an await, or the     *)
(* final log), the bytes it writes and the line it logs.                     *)

buildHtml(srcAbs) ==
    LET rel == relToSite(srcAbs) IN
    [fn     |-> "buildHtml", src |-> srcAbs,
     outAbs |-> join(CACHE_DIR, rel),
     plan   |-> <<"ensureDir", "render", "writeFile", "log">>,
     bytes  |-> Transformed(srcAbs, "html"),
     line   |-> [tag |-> "HTML", path |-> rel]]

buildJs(srcAbs) ==
    LET rel == relToSite(srcAbs) IN
    IF IsMinJs(rel)
    THEN [fn     |-> "buildJs", src |-> srcAbs,
          outAbs |-> join(CACHE_DIR, rel),
          plan   |-> <<"ensureDir", "copyFile", "log">>,
          bytes  |-> SourceBytes(srcAbs),
          line   |-> [tag |-> "JS(cp)", path |-> rel]]
    ELSE [fn     |-> "buildJs", src |-> srcAbs,
          outAbs |-> join(CACHE_DIR, rel),
          plan   |-> <<"readFile", "minify", "ensureDir", "writeFile", "log">>,
          bytes  |-> Transformed(srcAbs, "js"),
          line   |-> [tag |-> "JS", path |-> rel]]

\* (variant: the output directory is created before the style sheet is read
\* and minified, as buildHtml does)
buildCssDirFirst(srcAbs) ==
    LET rel == relToSite(srcAbs) IN
    IF IsMinCss(rel)
    THEN [fn     |-> "buildCss", src |-> srcAbs,
          outAbs |-> join(CACHE_DIR, rel),
          plan   |-> <<"ensureDir", "copyFile", "log">>,
          bytes  |-> SourceBytes(srcAbs),
          line   |-> [tag |-> "CSS(cp)", path |-> rel]]
    ELSE [fn     |-> "buildCss", src |-> srcAbs,
          outAbs |-> join(CACHE_DIR, rel),
          plan   |-> <<"ensureDir", "readFile", "minify", "writeFile", "log">>,
          bytes  |-> Transformed(srcAbs, "css"),
          line   |-> [tag |-> "CSS", path |-> rel]]

buildCss(srcAbs) ==
    LET rel == relToSite(srcAbs) IN
    IF IsMinCss(rel)
    THEN [fn     |-> "buildCss", src |-> srcAbs,
          outAbs |-> join(CACHE_DIR, rel),
          plan   |-> <<"ensureDir", "copyFile", "log">>,
          bytes  |-> SourceBytes(srcAbs),
          line   |-> [tag |-> "CSS(cp)", path |-> rel]]
    ELSE [fn     |-> "buildCss", src |-> srcAbs,
          outAbs |-> join(CACHE_DIR, rel),
          plan   |-> <<"readFile", "minify", "ensureDir", "writeFile", "log">>,
          bytes  |-> Transformed(srcAbs, "css"),
          line   |-> [tag |-> "CSS", path |-> rel]]

buildImage(srcAbs) ==
    LET rel    == relToSite(srcAbs)
        outRel == join(dirname(rel), <<WebpName(rel)>>)
    IN
    [fn     |-> "buildImage", src |-> srcAbs,
     outAbs |-> join(CACHE_DIR, outRel),
     plan   |-> <<"ensureDir", "toFile", "log">>,
     bytes  |-> Transformed(srcAbs, "webp"),
     line   |-> [tag |-> "IMG", path |-> outRel]]

\* (variant: the progress line is printed before the copy is awaited)
copyAssetLogFirst(srcAbs) ==
    LET rel == relToSite(srcAbs) IN
    [fn     |-> "copyAsset", src |-> srcAbs,
     outAbs |-> join(CACHE_DIR, rel),
     plan   |-> <<"ensureDir", "log", "copyFile">>,
     bytes  |-> SourceBytes(srcAbs),
     line   |-> [tag |-> "COPY", path |-> rel]]

copyAsset(srcAbs) ==
    LET rel == relToSite(srcAbs) IN
    [fn     |-> "copyAsset", src |-> srcAbs,
     outAbs |-> join(CACHE_DIR, rel),
     plan   |-> <<"ensureDir", "copyFile", "log">>,
     bytes  |-> SourceBytes(srcAbs),
     line   |-> [tag |-> "COPY", path |-> rel]]

\* the if / else-if chain of main's loop body
HandlerFor(abs) ==
    LET ext == ToLowerCase(extname(abs)) IN
    IF ext = HTML_EXT THEN buildHtml(abs)
    ELSE IF ext = JS_EXT THEN buildJs(abs)
    ELSE IF ext = CSS_EXT THEN buildCss(abs)
    ELSE IF ext \in IMAGE_EXTS THEN buildImage(abs)
    ELSE copyAsset(abs)

\* (variant: the list is awaited one file late, `tasks.length > 50`)
BatchFullLate(n) == n > BatchSize

\* `tasks.length >= 50`, with the model's batch size for 50
BatchFull(n) == n >= BatchSize

\* (variant: Promise.any, fulfilled once one promise of the array is)
AnyFulfilled(batch) ==
    \E k \in 1..Len(batch) : handlers[batch[k]].status = "done"

\* Promise.all is fulfilled once every promise of the array is
AllFulfilled(batch) ==
    \A k \in 1..Len(batch) : handlers[batch[k]].status = "done"

-----------------------------------------------------------------------------
(* State *)

\* the directories implied by a set of files, with the script's own directory
DirsOf(files) ==
    {dirname(CACHE_DIR)} \cup UNION {Chain(dirname(p)) : p \in DOMAIN files}

NewProcess ==
    /\ pc = "start"
    /\ steps = << >>
    /\ pos = 1
    /\ handlers = << >>
    /\ tasks = << >>
    /\ batches = << >>
    /\ stdout = << >>
    /\ stderr = << >>
    /\ exitCode = "running"
    /\ rmOk = "pending"
    /\ settled = NoFiles

Init ==
    /\ tree \in Trees
    /\ run = "first"
    /\ destFiles \in InitialDests
    /\ destDirs = DirsOf(destFiles)
    /\ destBefore = destFiles
    /\ prev = [exitCode |-> "none", rmOk |-> "none", destFiles |-> NoFiles]
    /\ NewProcess

\* process.exit(code): nothing of this process runs afterwards
Exit(code) ==
    /\ pc' = "exited"
    /\ exitCode' = code

\* main().catch: console.error(err.stack), process.exit(1)
Catch(err) ==
    /\ stderr' = Append(stderr, err)
    /\ Exit(1)

\* the promises main still holds or is awaiting: the spliced-out array while
\* the loop awaits it, `tasks` itself otherwise (the last await does not
\* splice)
InFlight ==
    IF pc = "await" THEN tasks \o batches[Len(batches)] ELSE tasks

-----------------------------------------------------------------------------
(* main *)

\* log(`Site: ...`); log(`Out: ...`); then rimraf is called
Banner ==
    /\ pc = "start"
    /\ stdout' = <<[tag |-> "Site:", path |-> SITE_DIR],
                   [tag |-> "Out:", path |-> CACHE_DIR]>>
    /\ pc' = "rimraf"
    /\ UNCHANGED <<tree, run, steps, pos, handlers, tasks, batches, destFiles,
                   destDirs, stderr, exitCode, rmOk, destBefore, settled, prev>>

\* (variant: nothing is removed, whatever fsp.rm reports)
rimrafNothing(files, ok) == {files}

\* what fsp.rm(dir, {recursive, force}) leaves of the files when it succeeds
\* (ok) and when it throws: a failing rm may have removed any part of the tree
rimraf(files, ok) ==
    IF ok THEN {NoFiles} ELSE {Keep(files, S) : S \in SUBSET DOMAIN files}

\* await rimraf(CACHE_DIR): the error of fsp.rm is caught and dropped
Rimraf ==
    /\ pc = "rimraf"
    /\ \E ok \in BOOLEAN :
         /\ rmOk' = ok
         /\ destFiles' \in rimraf(destFiles, ok)
         /\ destDirs' = IF ok THEN {d \in destDirs : ~Below(d, CACHE_DIR)}
                        ELSE destDirs
    /\ pc' = "ensureDir"
    /\ UNCHANGED <<tree, run, steps, pos, handlers, tasks, batches, stdout,
                   stderr, exitCode, destBefore, settled, prev>>

\* await ensureDir(CACHE_DIR); on success the traversal begins
EnsureCacheDir ==
    /\ pc = "ensureDir"
    /\ \/ /\ destDirs' = destDirs \cup Chain(CACHE_DIR)
          /\ steps' = walk(SITE_DIR, tree)
          /\ pc' = "walk"
          /\ UNCHANGED <<stderr, exitCode>>
       \/ /\ Catch([stage |-> "ensureDir", path |-> CACHE_DIR])
          /\ UNCHANGED <<destDirs, steps>>
    /\ UNCHANGED <<tree, run, pos, handlers, tasks, batches, destFiles, stdout,
                   rmOk, destBefore, settled, prev>>

\* walk's fsp.readdir(dir): the entries, or an error that main does not catch
Readdir ==
    /\ pc = "walk"
    /\ pos <= Len(steps)
    /\ steps[pos].op = "readdir"
    /\ \/ /\ pos' = pos + 1
          /\ UNCHANGED <<pc, stderr, exitCode>>
       \/ /\ Catch([stage |-> "readdir", path |-> steps[pos].path])
          /\ UNCHANGED pos
    /\ UNCHANGED <<tree, run, steps, handlers, tasks, batches, destFiles,
                   destDirs, stdout, rmOk, destBefore, settled, prev>>

\* One turn of the for-await body: the handler is called (it runs up to its
\* first await), its promise is pushed, and a full list is spliced out and
\* handed to Promise.all.
Dispatch ==
    /\ pc = "walk"
    /\ pos <= Len(steps)
    /\ steps[pos].op = "yield"
    /\ LET abs     == steps[pos].path
           call    == [h     |-> HandlerFor(abs),
                       at     |-> 0,
                       status |-> "running",
                       error  |-> "none"]
           pending == Append(tasks, Len(handlers) + 1)
       IN /\ handlers' = Append(handlers, call)
          /\ IF BatchFull(Len(pending))
             THEN /\ tasks' = << >>
                  /\ batches' = Append(batches, pending)
                  /\ pc' = "await"
             ELSE /\ tasks' = pending
                  /\ UNCHANGED <<batches, pc>>
    /\ pos' = pos + 1
    /\ UNCHANGED <<tree, run, steps, destFiles, destDirs, stdout, stderr,
                   exitCode, rmOk, destBefore, settled, prev>>

\* the output files of a batch, as they are now
Outputs(batch) ==
    LET outs == {handlers[batch[k]].h.outAbs : k \in 1..Len(batch)}
                   \cap DOMAIN destFiles
    IN [p \in outs \cup DOMAIN settled |->
           IF p \in outs THEN destFiles[p] ELSE settled[p]]

\* `await Promise.all(tasks.splice(0, tasks.length))` returns: the loop asks
\* the traversal for the next file
BatchFulfilled ==
    /\ pc = "await"
    /\ AllFulfilled(batches[Len(batches)])
    /\ settled' = Outputs(batches[Len(batches)])
    /\ pc' = "walk"
    /\ UNCHANGED <<tree, run, steps, pos, handlers, tasks, batches, destFiles,
                   destDirs, stdout, stderr, exitCode, rmOk, destBefore, prev>>

\* The traversal is exhausted: `if (tasks.length) await Promise.all(tasks)`,
\* or straight to the last line of main when nothing is pending.
LoopEnd ==
    /\ pc = "walk"
    /\ pos > Len(steps)
    /\ IF tasks # << >>
       THEN /\ batches' = Append(batches, tasks)
            /\ pc' = "awaitFinal"
            /\ UNCHANGED <<stdout, exitCode>>
       ELSE /\ stdout' = Append(stdout, [tag |-> "Build complete.", path |-> << >>])
            /\ Exit(0)
            /\ UNCHANGED batches
    /\ UNCHANGED <<tree, run, steps, pos, handlers, tasks, destFiles, destDirs,
                   stderr, rmOk, destBefore, settled, prev>>

\* the last Promise.all returns: log('Build complete.'), then process.exit(0)
FinalFulfilled ==
    /\ pc = "awaitFinal"
    /\ AllFulfilled(batches[Len(batches)])
    /\ settled' = Outputs(batches[Len(batches)])
    /\ stdout' = Append(stdout, [tag |-> "Build complete.", path |-> << >>])
    /\ Exit(0)
    /\ UNCHANGED <<tree, run, steps, pos, handlers, tasks, batches, destFiles,
                   destDirs, stderr, rmOk, destBefore, prev>>

\* Promise.all rejects with the first rejection: main throws, the catch of
\* main() reports it and exits while the other handlers are still running
BatchRejected ==
    /\ pc \in {"await", "awaitFinal"}
    /\ \E k \in 1..Len(batches[Len(batches)]) :
         LET failed == handlers[batches[Len(batches)][k]] IN
         /\ failed.status = "failed"
         /\ Catch(failed.error)
    /\ UNCHANGED <<tree, run, steps, pos, handlers, tasks, batches, destFiles,
                   destDirs, stdout, rmOk, destBefore, settled, prev>>

\* A promise in `tasks` rejects while main is waiting for the traversal: no
\* handler is attached to it yet.  Depending on the runtime the rejection
\* ends the process at once with status 1, or it is kept until Promise.all
\* sees it.
UnhandledRejection ==
    /\ pc = "walk"
    /\ \E k \in 1..Len(tasks) :
         /\ handlers[tasks[k]].status = "failed"
         /\ stderr' = Append(stderr, handlers[tasks[k]].error)
         /\ Exit(1)
    /\ UNCHANGED <<tree, run, steps, pos, handlers, tasks, batches, destFiles,
                   destDirs, stdout, rmOk, destBefore, settled, prev>>

-----------------------------------------------------------------------------
(* The handlers' steps.  Each runs when the awaited operation of handler i    *)
(* settles; handlers of one batch take their steps in any order.              *)

\* the stage handler call c is waiting on
Stage(c) == c.h.plan[c.at + 1]

\* c after its current stage went through
Advance(c) ==
    [c EXCEPT !.at = c.at + 1,
              !.status = IF c.at + 1 = Len(c.h.plan) THEN "done" ELSE "running"]

Running(i) ==
    /\ pc # "exited"
    /\ i \in 1..Len(handlers)
    /\ handlers[i].status = "running"

\* await ensureDir(path.dirname(outAbs)) returns
HandlerEnsureDir(i) ==
    /\ Running(i)
    /\ Stage(handlers[i]) = "ensureDir"
    /\ destDirs' = destDirs \cup Chain(dirname(handlers[i].h.outAbs))
    /\ handlers' = [handlers EXCEPT ![i] = Advance(@)]
    /\ UNCHANGED <<tree, run, pc, steps, pos, tasks, batches, destFiles, stdout,
                   stderr, exitCode, rmOk, destBefore, settled, prev>>

\* fsp.readFile, Terser.minify / cssMinifier.minify without error, or
\* nunjucks.render followed by minifyHtml, returns
HandlerCompute(i) ==
    /\ Running(i)
    /\ Stage(handlers[i]) \in {"readFile", "minify", "render"}
    /\ handlers' = [handlers EXCEPT ![i] = Advance(@)]
    /\ UNCHANGED <<tree, run, pc, steps, pos, tasks, batches, destFiles,
                   destDirs, stdout, stderr, exitCode, rmOk, destBefore,
                   settled, prev>>

\* fsp.writeFile, fsp.copyFile or sharp(...).toFile returns: the output file
\* holds the handler's bytes.  The file system needs the parent directory.
HandlerWrite(i) ==
    /\ Running(i)
    /\ Stage(handlers[i]) \in {"writeFile", "copyFile", "toFile"}
    /\ dirname(handlers[i].h.outAbs) \in destDirs
    /\ destFiles' = Put(destFiles, handlers[i].h.outAbs, handlers[i].h.bytes)
    /\ handlers' = [handlers EXCEPT ![i] = Advance(@)]
    /\ UNCHANGED <<tree, run, pc, steps, pos, tasks, batches, destDirs, stdout,
                   stderr, exitCode, rmOk, destBefore, settled, prev>>

\* log(`TAG → path`), the last statement of every handler
HandlerLog(i) ==
    /\ Running(i)
    /\ Stage(handlers[i]) = "log"
    /\ stdout' = Append(stdout, handlers[i].h.line)
    /\ handlers' = [handlers EXCEPT ![i] = Advance(@)]
    /\ UNCHANGED <<tree, run, pc, steps, pos, tasks, batches, destFiles,
                   destDirs, stderr, exitCode, rmOk, destBefore, settled, prev>>

\* The awaited operation fails (an I/O error, result.error of Terser,
\* result.errors of CleanCSS, an encoder or renderer error): the handler
\* throws and its promise is rejected.  Nothing is written.
HandlerFail(i) ==
    /\ Running(i)
    /\ Stage(handlers[i]) # "log"
    /\ handlers' = [handlers EXCEPT ![i] =
           [@ EXCEPT !.status = "failed",
                     !.error  = [stage |-> Stage(handlers[i]),
                                 path  |-> relToSite(handlers[i].h.src)]]]
    /\ UNCHANGED <<tree, run, pc, steps, pos, tasks, batches, destFiles,
                   destDirs, stdout, stderr, exitCode, rmOk, destBefore,
                   settled, prev>>

-----------------------------------------------------------------------------
(* The script is run again on the same source tree, over whatever the first   *)
(* invocation left in CACHE_DIR.                                              *)

Rerun ==
    /\ pc = "exited"
    /\ run = "first"
    /\ run' = "second"
    /\ prev' = [exitCode |-> exitCode, rmOk |-> rmOk, destFiles |-> destFiles]
    /\ destBefore' = destFiles
    /\ pc' = "start"
    /\ steps' = << >>
    /\ pos' = 1
    /\ handlers' = << >>
    /\ tasks' = << >>
    /\ batches' = << >>
    /\ stdout' = << >>
    /\ stderr' = << >>
    /\ exitCode' = "running"
    /\ rmOk' = "pending"
    /\ settled' = NoFiles
    /\ UNCHANGED <<tree, destFiles, destDirs>>

Next ==
    \/ Banner
    \/ Rimraf
    \/ EnsureCacheDir
    \/ Readdir
    \/ Dispatch
    \/ BatchFulfilled
    \/ LoopEnd
    \/ FinalFulfilled
    \/ BatchRejected
    \/ UnhandledRejection
    \/ \E i \in 1..Len(handlers) : HandlerEnsureDir(i)
    \/ \E i \in 1..Len(handlers) : HandlerCompute(i)
    \/ \E i \in 1..Len(handlers) : HandlerWrite(i)
    \/ \E i \in 1..Len(handlers) : HandlerLog(i)
    \/ \E i \in 1..Len(handlers) : HandlerFail(i)
    \/ Rerun

Spec == Init /\ [][Next]_vars

-----------------------------------------------------------------------------
(* Vocabulary of the properties *)

Calls == 1..Len(handlers)

\* handler call c has gone through a stage of the set S
Passed(c, S) == \E k \in 1..c.at : c.h.plan[k] \in S

Ensured(i) == Passed(handlers[i], {"ensureDir"})

Wrote(i) == Passed(handlers[i], {"writeFile", "copyFile", "toFile"})

Logged(i) == Passed(handlers[i], {"log"})

\* the number of the batch the i-th dispatched file belongs to (from 0)
BatchOf(i) == (i - 1) \div BatchSize

\* the regular files below a directory, as a set (no order, no traversal)
RECURSIVE RegularFiles(_, _)
RegularFiles(dir, entries) ==
    UNION { IF entries[k].type = "file"
            THEN {join(dir, <<entries[k].name>>)}
            ELSE IF entries[k].type = "dir"
                 THEN RegularFiles(join(dir, <<entries[k].name>>), entries[k].entries)
                 ELSE {}
            : k \in 1..Len(entries) }

SourceFiles == RegularFiles(SITE_DIR, tree)

\* the clear step (rimraf, then ensureDir) has finished successfully
Cleared == steps # << >>

\* the files yielded by the traversal so far, in order
Yielded ==
    LET upTo == IF pos - 1 < Len(steps) THEN pos - 1 ELSE Len(steps) IN
    SelectSeq(SubSeq(steps, 1, upTo), LAMBDA st : st.op = "yield")

ProgressTags == {"HTML", "JS", "JS(cp)", "CSS", "CSS(cp)", "IMG", "COPY"}

Count(seq, x) == Cardinality({k \in 1..Len(seq) : seq[k] = x})

-----------------------------------------------------------------------------
(* C1 *)

\* C1: any two distinct source files that have been dispatched have distinct
\* output paths, so no two handlers of a run write the same destination path.
C1_DistinctOutputs ==
    \A i \in Calls : \A j \in Calls :
        handlers[i].h.src # handlers[j].h.src
            => handlers[i].h.outAbs # handlers[j].h.outAbs

-----------------------------------------------------------------------------
(* C2 *)

\* C2: two successful runs over the same unchanged source tree (every step
\* of both succeeded, the delete step included) end with identical
\* destination trees: same set of paths, same content per path, for every
\* order in which the handlers of a batch complete and whatever the
\* destination held before the first run.
C2_Idempotent ==
    (run = "second" /\ pc = "exited"
        /\ prev.exitCode = 0 /\ prev.rmOk = TRUE
        /\ exitCode = 0 /\ rmOk = TRUE)
        => destFiles = prev.destFiles

\* The same for any two runs that exit with status 0, also those whose
\* delete step failed silently.
C2_IdempotentAnyDelete ==
    (run = "second" /\ pc = "exited" /\ prev.exitCode = 0 /\ exitCode = 0)
        => destFiles = prev.destFiles

-----------------------------------------------------------------------------
(* C3 *)

\* C3: in every state of a run the handlers that were started and whose batch
\* has not been awaited to completion number at most the batch size; every
\* started handler that is not finished is among them; and the pending list
\* never stays at the batch size: it is emptied (handed to Promise.all) in
\* the step that fills it, before the traversal is asked for the next file.
C3_AtMostOneBatchInFlight ==
    /\ Len(InFlight) <= BatchSize
    /\ Len(tasks) < BatchSize
    /\ pc # "exited" =>
          \A i \in Calls : handlers[i].status # "done"
                              => \E k \in 1..Len(InFlight) : InFlight[k] = i

\* a full batch is being awaited and all of its handlers are still running
C3_Witness ==
    /\ pc = "await"
    /\ Len(InFlight) = BatchSize
    /\ \A k \in 1..Len(InFlight) : handlers[InFlight[k]].status = "running"

-----------------------------------------------------------------------------
(* C4 *)

\* C4: batches are strictly sequential.  Whenever a handler of a later batch
\* has been started, every handler of every earlier batch is finished; while
\* a batch is awaited the traversal stands still (the handlers are exactly
\* the files yielded so far, in traversal order); every batch handed to
\* Promise.all other than the last holds exactly BatchSize consecutive
\* handlers, the last one at most BatchSize.
C4_BatchesSequential ==
    /\ \A i \in Calls : \A j \in Calls :
          BatchOf(i) < BatchOf(j) => handlers[i].status = "done"
    /\ Len(handlers) = Len(Yielded)
    /\ \A i \in Calls : handlers[i].h.src = Yielded[i].path
    /\ \A n \in 1..Len(batches) :
          /\ Len(batches[n]) <= BatchSize
          /\ n < Len(batches) => Len(batches[n]) = BatchSize
          /\ \A k \in 1..Len(batches[n]) :
                batches[n][k] = (n - 1) * BatchSize + k

\* a second batch is in flight and its second handler has finished before
\* its first one
C4_Witness ==
    /\ Len(batches) = 2
    /\ pc \in {"await", "awaitFinal"}
    /\ Len(batches[2]) >= 2
    /\ handlers[batches[2][2]].status = "done"
    /\ handlers[batches[2][1]].status = "running"

-----------------------------------------------------------------------------
(* C5 *)

\* C5: when a handler has failed and the process has exited, the exit status
\* is 1, 'Build complete.' was not printed, no file of a later batch than
\* the failing one was dispatched, and every output file of an earlier,
\* fulfilled batch is still in the destination with the content it had when
\* that batch was fulfilled.
C5_AbortOnFailure ==
    (pc = "exited" /\ \E i \in Calls : handlers[i].status = "failed") =>
        /\ exitCode = 1
        /\ \A k \in 1..Len(stdout) : stdout[k].tag # "Build complete."
        /\ \A i \in Calls : \A j \in Calls :
              handlers[i].status = "failed" => BatchOf(j) <= BatchOf(i)
        /\ \A p \in DOMAIN settled :
              p \in DOMAIN destFiles /\ destFiles[p] = settled[p]

\* The same, without the last conjunct (what C5 says apart from the outputs
\* of earlier batches staying unchanged).
C5_AbortWithoutRollback ==
    (pc = "exited" /\ \E i \in Calls : handlers[i].status = "failed") =>
        /\ exitCode = 1
        /\ \A k \in 1..Len(stdout) : stdout[k].tag # "Build complete."
        /\ \A i \in Calls : \A j \in Calls :
              handlers[i].status = "failed" => BatchOf(j) <= BatchOf(i)
        /\ \A p \in DOMAIN settled : p \in DOMAIN destFiles

-----------------------------------------------------------------------------
(* What the documentation says about names, written without the script's    *)
(* own helpers.                                                             *)

\* a final name segment, letter case ignored
Folded(seg) ==
    CASE seg \in {"js", "JS"}           -> "js"
      [] seg \in {"css", "CSS"}         -> "css"
      [] seg \in {"html", "Html"}       -> "html"
      [] seg \in {"min", "MIN"}         -> "min"
      [] seg \in {"jpg", "JPG"}         -> "jpg"
      [] seg \in {"png", "PNG"}         -> "png"
      [] seg \in {"webp", "WebP"}       -> "webp"
      [] seg \in {"jpeg", "jfif"}       -> seg
      [] OTHER                          -> "other"

\* the extension of a name, or "none": a leading dot starts no extension
ExtensionOf(name) ==
    IF Len(name) = 1 \/ (Len(name) = 2 /\ name[1] = "") THEN "none"
    ELSE Folded(name[Len(name)])

\* the name ends in ".min.<ext>"
EndsInMin(name) == Len(name) >= 3 /\ Folded(name[Len(name) - 1]) = "min"

\* the transform the dispatch table gives a file name
KindOf(name) ==
    LET ext == ExtensionOf(name) IN
    CASE ext = "html" -> "html"
      [] ext = "js"   -> IF EndsInMin(name) THEN "copy" ELSE "js"
      [] ext = "css"  -> IF EndsInMin(name) THEN "copy" ELSE "css"
      [] ext \in {"jpg", "jpeg", "png", "webp", "jfif"} -> "webp"
      [] OTHER -> "copy"

\* where the mirror of source file f is expected in the destination
MirrorOf(f) ==
    LET rel  == SubSeq(f, Len(SITE_DIR) + 1, Len(f))
        name == rel[Len(rel)]
    IN IF KindOf(name) = "webp"
       THEN CACHE_DIR \o SubSeq(rel, 1, Len(rel) - 1)
                      \o << SubSeq(name, 1, Len(name) - 1) \o <<"webp">> >>
       ELSE CACHE_DIR \o rel

-----------------------------------------------------------------------------
(* C6 *)

\* the destination was recreated, every regular file of the source tree was
\* dispatched exactly once, its handler completed, and its mirror exists
Mirrored ==
    /\ Cleared
    /\ CACHE_DIR \in destDirs
    /\ \A f \in SourceFiles :
          /\ Cardinality({i \in Calls : handlers[i].h.src = f}) = 1
          /\ \A i \in Calls : handlers[i].h.src = f => handlers[i].status = "done"
          /\ MirrorOf(f) \in DOMAIN destFiles

\* C6: the process exits with status 0, after printing 'Build complete.',
\* only if the destination is a complete mirror; every other run that exits
\* does so with status 1.
C6_ExitZeroMeansMirror ==
    /\ pc # "exited" => exitCode = "running"
    /\ pc = "exited" => exitCode \in {0, 1}
    /\ (pc = "exited" /\ exitCode = 0) =>
          /\ stdout[Len(stdout)].tag = "Build complete."
          /\ Mirrored
    /\ (\E k \in 1..Len(stdout) : stdout[k].tag = "Build complete.") =>
          exitCode = 0

\* a run over a tree with a subdirectory and an image has exited with 0
C6_Witness ==
    /\ pc = "exited"
    /\ exitCode = 0
    /\ \E i \in Calls : Len(handlers[i].h.src) > Len(SITE_DIR) + 1
    /\ \E i \in Calls : handlers[i].h.fn = "buildImage"

-----------------------------------------------------------------------------
(* C7 *)

\* the transform a handler call performs, read off what it writes
Performs(c) == IF c.bytes = SourceBytes(c.src) THEN "copy" ELSE c.bytes.form

\* C7: every yielded file gets exactly one handler call, chosen by the
\* dispatch table from its name with the letter case ignored; a call on a
\* copy branch writes to the mirrored relative path, extension unchanged,
\* and once it has written, the output holds the bytes of the input.
C7_DispatchTable ==
    /\ Len(handlers) = Len(Yielded)
    /\ \A i \in Calls : \A j \in Calls :
          handlers[i].h.src = handlers[j].h.src => i = j
    /\ \A i \in Calls :
          LET c    == handlers[i].h
              kind == KindOf(c.src[Len(c.src)])
          IN /\ Performs(c) = kind
             /\ c.fn = CASE kind = "html" -> "buildHtml"
                         [] kind = "webp" -> "buildImage"
                         [] ExtensionOf(c.src[Len(c.src)]) = "js"  -> "buildJs"
                         [] ExtensionOf(c.src[Len(c.src)]) = "css" -> "buildCss"
                         [] OTHER -> "copyAsset"
             /\ kind = "copy" =>
                   /\ c.outAbs = CACHE_DIR \o SubSeq(c.src, Len(SITE_DIR) + 1, Len(c.src))
                   /\ Wrote(i) =>
                         /\ c.outAbs \in DOMAIN destFiles
                         /\ destFiles[c.outAbs] = SourceBytes(c.src)

\* an upper-case .JS has been minified and a dot file named ".js" copied
C7_Witness ==
    \E i \in Calls : \E j \in Calls :
        /\ handlers[i].h.src[Len(handlers[i].h.src)] = <<"APP", "JS">>
        /\ Wrote(i)
        /\ handlers[j].h.src[Len(handlers[j].h.src)] = <<"", "js">>
        /\ Wrote(j)

-----------------------------------------------------------------------------
(* C8 *)

\* handlers are started only after the clear step has finished
ClearPrecedesDispatch ==
    handlers # << >> => (Cleared /\ rmOk \in BOOLEAN /\ CACHE_DIR \in destDirs)

\* no file from before the run is in the destination unless this run wrote it
NothingLeftOver ==
    \A p \in DOMAIN destFiles \cap DOMAIN destBefore :
        \E i \in Calls : Wrote(i) /\ handlers[i].h.outAbs = p

\* a failed recreate step ends the run with status 1 and no handler started
RecreateFailureIsFatal ==
    (\E k \in 1..Len(stderr) :
        stderr[k] = [stage |-> "ensureDir", path |-> CACHE_DIR])
        => (pc = "exited" /\ exitCode = 1 /\ handlers = << >>)

\* C8 as stated: the clear step finishes before the first handler is
\* dispatched; from then on no file from before the run is present unless
\* this run wrote it, for every outcome of the delete step; a failure of
\* the recreate step ends the run with status 1 before any handler starts.
C8_ReplacedWholesale ==
    /\ ClearPrecedesDispatch
    /\ Cleared => NothingLeftOver
    /\ RecreateFailureIsFatal

\* C8 amended: as above, but files from before the run are known to be
\* gone only when the delete step succeeded; when it fails, the failure is
\* swallowed and they may still be there.
C8_ReplacedWhenDeleteSucceeds ==
    /\ ClearPrecedesDispatch
    /\ (Cleared /\ rmOk = TRUE) => NothingLeftOver
    /\ RecreateFailureIsFatal

\* the delete step succeeded on a destination that held a file, and a
\* handler of this run has written that path again
C8_Witness ==
    /\ Cleared
    /\ rmOk = TRUE
    /\ \E p \in DOMAIN destBefore : \E i \in Calls :
          Wrote(i) /\ handlers[i].h.outAbs = p /\ p \in DOMAIN destFiles

-----------------------------------------------------------------------------
(* C9 *)

ProgressLines ==
    SelectSeq(stdout, LAMBDA line : line.tag \in ProgressTags)

\* C9: a handler's progress line is printed only after its output file was
\* written, once per handler, never for a handler that failed; stdout holds
\* exactly the lines of the handlers that logged; the two banner lines come
\* first; 'Build complete.' comes last, after the progress lines of all
\* source files, so a run that exits with 0 printed one line per source file.
C9_ProgressFollowsCompletion ==
    /\ \A i \in Calls :
          /\ Logged(i) => /\ Wrote(i)
                          /\ handlers[i].status = "done"
                          /\ handlers[i].h.outAbs \in DOMAIN destFiles
          /\ handlers[i].status = "failed" => ~Logged(i)
    /\ Len(ProgressLines) = Cardinality({i \in Calls : Logged(i)})
    /\ \A i \in Calls :
          Count(stdout, handlers[i].h.line) =
             Cardinality({j \in Calls :
                             Logged(j) /\ handlers[j].h.line = handlers[i].h.line})
    /\ \A k \in 1..Len(stdout) :
          /\ k = 1 <=> stdout[k].tag = "Site:"
          /\ k = 2 <=> stdout[k].tag = "Out:"
          /\ stdout[k].tag = "Build complete." =>
                /\ k = Len(stdout)
                /\ Len(ProgressLines) = Cardinality(SourceFiles)
                /\ \A f \in SourceFiles :
                      \E i \in Calls : handlers[i].h.src = f /\ Logged(i)
    /\ (pc = "exited" /\ exitCode = 0) =>
          Len(stdout) = Cardinality(SourceFiles) + 3

\* one handler of a batch has printed its line while another has written
\* its file and not yet printed
C9_Witness ==
    \E i \in Calls : \E j \in Calls :
        /\ Logged(i)
        /\ Wrote(j)
        /\ ~Logged(j)
        /\ BatchOf(i) = BatchOf(j)

-----------------------------------------------------------------------------
(* C10 *)

\* C10: a handler whose minifier reported an error never called ensureDir
\* and never wrote: its output path holds nothing but what was there before
\* the run, and after a successful delete its output directory exists only
\* if it is the destination root or another handler created it.  Every
\* handler that has written called ensureDir first, and the whole directory
\* chain of its output exists.
C10_FailedMinifyWritesNothing ==
    /\ \A i \in Calls :
          (handlers[i].status = "failed" /\ handlers[i].error.stage = "minify") =>
             LET out == handlers[i].h.outAbs IN
             /\ handlers[i].h.fn \in {"buildJs", "buildCss"}
             /\ ~Ensured(i)
             /\ ~Wrote(i)
             /\ out \in DOMAIN destFiles =>
                   /\ rmOk = FALSE
                   /\ out \in DOMAIN destBefore
                   /\ destFiles[out] = destBefore[out]
             /\ (rmOk = TRUE /\ dirname(out) \in destDirs) =>
                   \/ dirname(out) \in Chain(CACHE_DIR)
                   \/ \E j \in Calls :
                         /\ j # i
                         /\ Ensured(j)
                         /\ dirname(out) \in Chain(dirname(handlers[j].h.outAbs))
    /\ \A i \in Calls :
          Wrote(i) => /\ Ensured(i)
                      /\ Chain(dirname(handlers[i].h.outAbs)) \subseteq destDirs

\* the CSS minifier failed for css/site.css, the run has ended, and the
\* directory css was never created in the destination
C10_Witness ==
    /\ pc = "exited"
    /\ \E i \in Calls :
          /\ handlers[i].status = "failed"
          /\ handlers[i].error.stage = "minify"
          /\ handlers[i].h.fn = "buildCss"
          /\ dirname(handlers[i].h.outAbs) \notin destDirs

====
